---- MODULE Spec2Model ----
(***************************************************************************)
(* A model of the datastore access layer: DataServer (the session, in      *)
(* src/src/dataserver.js) and Database (src/src/database.js).              *)
(*                                                                         *)
(* JavaScript runs one piece of code at a time.  Every call of an async    *)
(* function is a task with a stack of frames; `running` is the task that   *)
(* holds the event loop.  A task gives the loop up only where it awaits an *)
(* external collaborator (identity layer, document store), and the         *)
(* collaborator's answer is drawn from a small set when the task resumes.  *)
(***************************************************************************)
EXTENDS Integers, Sequences, FiniteSets, TLC

VARIABLES
    ds,        \* the DataServer object's fields
    store,     \* the LocalCache (the `store` package): key -> serialized session
    db,        \* the Database object's fields
    docs,      \* the documents held by the backend's document store
    clock,     \* the wall clock read by new Date()
    uuids,     \* how many identifiers uuidv1() has handed out
    tasks,     \* the calls in progress: operation, stack of frames, result, calls made
    running,   \* the task that holds the event loop, 0 when every task is suspended
    calls      \* number of top-level calls issued so far

vars == <<ds, store, db, docs, clock, uuids, tasks, running, calls>>

----------------------------------------------------------------------------
(* Bounds *)

NumTasks == 2       \* calls in progress at the same time
MaxCalls == 3       \* calls made on the DataServer in one behaviour
MaxDbCalls == 2     \* calls made on the Database in one behaviour
MaxClock == 2       \* the last instant of the wall clock

Tasks == 1..NumTasks

----------------------------------------------------------------------------
(* Values *)

null == "null"
NoObject == [null |-> TRUE]

UserA == "did:a"
UserB == "did:b"
Users == {UserA, UserB}

STORAGE_KEY == "VERIDA_SESSION_"
AppName == "notes"

\* What the identity layer hands out for a user (user.getAppConfig, the data server).
SignatureOf(u) == "sig:" \o u
VidOf(u) == "vid:" \o u
DsnOf(u) == "dsn:" \o u
PublicUser == "public-user"

\* new Keyring(signature): everything the keyring holds is derived from the signature.
Keyring(signature) == [signature |-> signature, symKey |-> <<"symKey", signature>>]

_generatePassword(signature) == <<"sha256", signature>>

\* Errors raised by collaborators.
TypeError == <<"TypeError">>
AppConfigError == <<"getAppConfig failed">>
\* An error of client.getUser: whether it carries a response, the response's
\* statusText, and its data.data.did.
ResponseError(statusText, did) == <<"response", statusText, did>>
NetworkError == <<"no response", "", "">>
CreateUserError == <<"createUser failed">>
ErrUnauthorized == <<"Invalid signature or permission to access DID server">>

----------------------------------------------------------------------------
(* Tasks and frames *)

NoRet == [t |-> "none"]
Ok(v) == [t |-> "ok", v |-> v]
Throw(e) == [t |-> "throw", e |-> e]

\* call: the call as it was made; pre: the DataServer as the call found it.
IdleTask == [status |-> "idle", op |-> "none", call |-> NoObject, stack |-> <<>>,
             ret |-> NoRet, log |-> <<>>, pre |-> NoObject]

Top(T) == T.stack[Len(T.stack)]
Front(s) == SubSeq(s, 1, Len(s) - 1)

\* The pcs at which a frame waits for an external collaborator.
IOWait == {"await user.getAppConfig", "await client.getUser", "await client.createUser",
           "await client.getPublicUser", "await db.getDb", "await _db.put",
           "await _db.get", "await _db.find"}

Goto(T, pc) == [T EXCEPT !.stack[Len(T.stack)].pc = pc]
SetTop(T, f) == [T EXCEPT !.stack[Len(T.stack)] = f]
Call(T, pc, frame) == [Goto(T, pc) EXCEPT !.stack = Append(@, frame)]
Return(T, r) ==
    [T EXCEPT !.stack = Front(@), !.ret = r,
              !.status = IF Len(T.stack) = 1 THEN "done" ELSE "active"]
\* The operations of the DataServer; the others are the Database's.
DataServerOps == {"connect", "logout", "getPublicCredentials", "getKey", "getClient", "getDsn"}

\* A task's log: the calls its operation's object made on its collaborators, in order.
Log(T, e) == [T EXCEPT !.log = Append(@, e)]
\* A call the DataServer makes; a Database operation's log leaves these out.
SLog(T, e) == IF T.op \in DataServerOps THEN Log(T, e) ELSE T

\* Task t holds the event loop and its top frame is at pc of fn.
At(t, fn, pc) ==
    /\ running = t
    /\ tasks[t].status = "active"
    /\ Top(tasks[t]).fn = fn
    /\ Top(tasks[t]).pc = pc

\* Task t is suspended at an external call, and the event loop is free to resume it.
Resumes(t, fn, pc) ==
    /\ running = 0
    /\ tasks[t].status = "active"
    /\ Top(tasks[t]).fn = fn
    /\ Top(tasks[t]).pc = pc

\* The task keeps the event loop unless it now waits for an external collaborator.
Sched(t, T) == IF T.status = "active" /\ Top(T).pc \in IOWait THEN 0 ELSE t

Step(t, T) ==
    /\ tasks' = [tasks EXCEPT ![t] = T]
    /\ running' = Sched(t, T)

\* A top-level call: issued while the event loop is free, by the first free task.
Invoke(t, op, frame) ==
    /\ running = 0
    /\ calls < (IF op \in DataServerOps THEN MaxCalls ELSE MaxDbCalls)
    /\ tasks[t].status = "idle"
    /\ \A u \in Tasks : u < t => tasks[u].status # "idle"
    /\ calls' = calls + 1
    /\ tasks' = [tasks EXCEPT ![t] =
                    [status |-> "active", op |-> op, call |-> frame, stack |-> <<frame>>,
                     ret |-> NoRet, log |-> <<>>,
                     pre |-> IF op \in DataServerOps THEN ds ELSE NoObject]]
    /\ running' = t

\* The caller has its result; the task is free for the next call.
Settle(t) ==
    /\ running = t
    /\ tasks[t].status = "done"
    /\ tasks' = [tasks EXCEPT ![t] = IdleTask]
    /\ running' = 0
    /\ UNCHANGED <<ds, store, db, docs, clock, uuids, calls>>

----------------------------------------------------------------------------
(* DataServer *)

StorageKey(appName, did) == STORAGE_KEY \o appName \o did

DataServer ==
    [appName |-> AppName,
     _publicCredentials |-> null,
     _user |-> null,
     _keyring |-> NoObject,
     _vid |-> null,
     _dsn |-> null,
     _client |-> [username |-> null, signature |-> null],
     _storageKey |-> null,
     _userConfig |-> null,
     _connected |-> null]

\* serialize() as it would be if it left the dsn out.
serialize_withoutDsn(S) ==
    [signature |-> S._keyring.signature,
     dsn |-> null,
     vid |-> S._vid,
     publicCredentials |-> S._publicCredentials]

serialize(S) ==
    [signature |-> S._keyring.signature,
     dsn |-> S._dsn,
     vid |-> S._vid,
     publicCredentials |-> S._publicCredentials]

unserialize(S, data, user) ==
    [S EXCEPT !._keyring = Keyring(data.signature),
              !._vid = data.vid,
              !._dsn = data.dsn,
              !._client = [username |-> user, signature |-> data.signature],
              !._publicCredentials = data.publicCredentials]

\* store.get / store.set / store.remove
storeHas(key) == key \in DOMAIN store
storeSet(s, key, value) == [k \in DOMAIN s \cup {key} |-> IF k = key THEN value ELSE s[k]]
storeRemove(s, key) == [k \in DOMAIN s \ {key} |-> s[k]]

ConnectFrame(user, force) ==
    [fn |-> "connect", pc |-> "start", user |-> user, force |-> force,
     signature |-> null, vid |-> null]

\* connect(user, force) as it would be if it ignored the force argument.
connectBranch_ignoringForce(userConfig, user, cached, force) ==
    CASE userConfig # null -> "connected"
      [] user = null -> "TypeError"
      [] cached -> "restore"
      [] OTHER -> "force"

\* The way connect(user, force) takes, given what the LocalCache holds.
connectBranch(userConfig, user, cached, force) ==
    CASE userConfig # null -> "connected"
      [] user = null -> "TypeError"
      [] cached -> "restore"
      [] force -> "force"
      [] OTHER -> "fail"

\* connect(user, force), up to its first await
connect(t) ==
    /\ At(t, "connect", "start")
    /\ UNCHANGED <<db, docs, clock, uuids, calls>>
    /\ LET T == tasks[t]
           f == Top(T)
           key == StorageKey(ds.appName, f.user)
           S1 == [ds EXCEPT !._storageKey = key]
           branch == connectBranch(ds._userConfig, f.user,
                                   f.user # null /\ storeHas(key), f.force)
       IN  CASE branch = "connected" ->
                /\ Step(t, Return(T, Ok(TRUE)))
                /\ UNCHANGED <<ds, store>>
             [] branch = "TypeError" ->
                /\ Step(t, Return(T, Throw(TypeError)))
                /\ UNCHANGED <<ds, store>>
             [] branch = "restore" ->
                /\ ds' = [unserialize(S1, store[key], f.user) EXCEPT !._user = f.user]
                /\ Step(t, Return(SLog(SLog(T, <<"store.get", key, "hit">>),
                                       <<"unserialize", store[key].signature>>), Ok(TRUE)))
                /\ UNCHANGED store
             [] branch = "force" ->
                /\ ds' = S1
                /\ Step(t, Goto(SLog(SLog(T, <<"store.get", key,
                                               IF storeHas(key) THEN "hit" ELSE "miss">>),
                                     <<"user.getAppConfig", f.user>>),
                                "await user.getAppConfig"))
                /\ UNCHANGED store
             [] OTHER ->
                /\ ds' = S1
                /\ Step(t, Return(SLog(T, <<"store.get", key, "miss">>), Ok(FALSE)))
                /\ UNCHANGED store

GetUserFrame(user, signature) ==
    [fn |-> "_getUser", pc |-> "start", user |-> user, signature |-> signature]

\* user.getAppConfig answers: the signed configuration, or the user refuses to sign
connect_getAppConfig(t) ==
    /\ Resumes(t, "connect", "await user.getAppConfig")
    /\ UNCHANGED <<ds, store, db, docs, clock, uuids, calls>>
    /\ \E answer \in {"ok", "error"} :
        LET T == tasks[t]
            f == Top(T)
            g == [f EXCEPT !.signature = SignatureOf(f.user), !.vid = VidOf(f.user)]
        IN  /\ tasks' = [tasks EXCEPT ![t] =
                    IF answer = "ok"
                    THEN Call(SetTop(T, g), "await _getUser",
                              GetUserFrame(f.user, g.signature))
                    ELSE Return(T, Throw(AppConfigError))]
            /\ running' = t

\* _getUser, up to the call of client.getUser
_getUser(t) ==
    /\ At(t, "_getUser", "start")
    /\ UNCHANGED <<store, db, docs, clock, uuids, calls>>
    /\ LET T == tasks[t]
           f == Top(T)
       IN  /\ ds' = [ds EXCEPT !._client = [username |-> f.user, signature |-> f.signature]]
           /\ Step(t, Goto(SLog(T, <<"client.getUser", f.user>>), "await client.getUser"))

\* The data server's user record: its dsn, which a server may leave unset.
UserRecord(user, answer) == [dsn |-> IF answer = "user" THEN DsnOf(user) ELSE null]

\* The errors client.getUser rejects with.
GetUserErrors ==
    {ResponseError("Bad Request", "Invalid DID specified"),
     ResponseError("Unauthorized", ""),
     ResponseError("Unauthorized", "Invalid DID specified"),
     ResponseError("Internal Server Error", ""),
     NetworkError}

\* _getUser's catch block as it would be if it tested for Unauthorized first.
catch_unauthorizedFirst(err) ==
    CASE err[1] = "response" /\ err[2] = "Unauthorized" -> "Unauthorized"
      [] err[1] = "response" /\ err[3] = "Invalid DID specified" -> "createUser"
      [] OTHER -> "rethrow"

\* _getUser's catch block: what is done about an error of client.getUser
catch(err) ==
    CASE err[1] = "response" /\ err[3] = "Invalid DID specified" -> "createUser"
      [] err[1] = "response" /\ err[2] = "Unauthorized" -> "Unauthorized"
      [] OTHER -> "rethrow"

\* client.getUser answers
_getUser_getUser(t) ==
    /\ Resumes(t, "_getUser", "await client.getUser")
    /\ UNCHANGED <<ds, store, db, docs, clock, uuids, calls>>
    /\ LET T == tasks[t]
           f == Top(T)
       IN  \/ \E answer \in {"user", "user without dsn"} :
                /\ tasks' = [tasks EXCEPT ![t] =
                        Return(SLog(T, <<"client.getUser returned", UserRecord(f.user, answer)>>),
                               Ok(UserRecord(f.user, answer)))]
                /\ running' = t
          \/ \E err \in GetUserErrors :
                LET T1 == SLog(T, <<"client.getUser threw", err>>)
                IN  /\ tasks' = [tasks EXCEPT ![t] =
                          CASE catch(err) = "createUser" ->
                                  Goto(SLog(T1, <<"client.createUser", f.user,
                                                 _generatePassword(f.signature)>>),
                                       "await client.createUser")
                            [] catch(err) = "Unauthorized" -> Return(T1, Throw(ErrUnauthorized))
                            [] OTHER -> Return(T1, Throw(err))]
                    /\ running' = IF catch(err) = "createUser" THEN 0 ELSE t

\* client.createUser answers
_getUser_createUser(t) ==
    /\ Resumes(t, "_getUser", "await client.createUser")
    /\ UNCHANGED <<ds, store, db, docs, clock, uuids, calls>>
    /\ LET T == tasks[t]
           f == Top(T)
       IN  \E answer \in {"user", "user without dsn", "error"} :
             /\ tasks' = [tasks EXCEPT ![t] =
                    IF answer = "error" THEN Return(T, Throw(CreateUserError))
                    ELSE Return(T, Ok(UserRecord(f.user, answer)))]
             /\ running' = t

\* connect, after _getUser has returned
connect_afterGetUser(t) ==
    /\ At(t, "connect", "await _getUser")
    /\ UNCHANGED <<db, docs, clock, uuids, calls>>
    /\ LET T == tasks[t]
           f == Top(T)
       IN  IF T.ret.t = "throw"
           THEN /\ Step(t, Return(T, T.ret))
                /\ UNCHANGED <<ds, store>>
           ELSE LET config == [signature |-> f.signature, vid |-> f.vid,
                               dsn |-> T.ret.v.dsn, publicCredentials |-> null]
                    S1 == unserialize(ds, config, f.user)
                IN  /\ store' = storeSet(store, S1._storageKey, serialize(S1))
                    /\ ds' = [S1 EXCEPT !._user = f.user]
                    /\ Step(t, Return(SLog(SLog(T, <<"unserialize", config.signature>>),
                                           <<"store.set", S1._storageKey>>), Ok(TRUE)))

LogoutFrame == [fn |-> "logout", pc |-> "start"]

logout(t) ==
    /\ At(t, "logout", "start")
    /\ UNCHANGED <<db, docs, clock, uuids, calls>>
    /\ ds' = [ds EXCEPT !._connected = "false"]
    /\ store' = storeRemove(store, ds._storageKey)
    /\ Step(t, Return(SLog(tasks[t], <<"store.remove", ds._storageKey>>), Ok(null)))

PublicCredentialsFrame == [fn |-> "getPublicCredentials", pc |-> "start"]

getPublicCredentials(t) ==
    /\ At(t, "getPublicCredentials", "start")
    /\ UNCHANGED <<ds, store, db, docs, clock, uuids, calls>>
    /\ LET T == tasks[t]
       IN  IF ds._publicCredentials # null
           THEN Step(t, Return(T, Ok(ds._publicCredentials)))
           ELSE Step(t, Goto(SLog(T, <<"client.getPublicUser">>), "await client.getPublicUser"))

getPublicCredentials_getPublicUser(t) ==
    /\ Resumes(t, "getPublicCredentials", "await client.getPublicUser")
    /\ UNCHANGED <<store, db, docs, clock, uuids, calls>>
    /\ \E answer \in {"ok", "error"} :
        /\ ds' = IF answer = "ok" THEN [ds EXCEPT !._publicCredentials = PublicUser] ELSE ds
        /\ tasks' = [tasks EXCEPT ![t] =
                IF answer = "ok" THEN Return(tasks[t], Ok(PublicUser))
                ELSE Return(tasks[t], Throw(NetworkError))]
        /\ running' = t

CredentialFrame(fn, user) == [fn |-> fn, pc |-> "start", user |-> user]

\* getKey / getClient / getDsn as they would be if the lazy connect were not forced.
lazyConnect_unforced(t, fn) ==
    /\ At(t, fn, "start")
    /\ UNCHANGED <<ds, store, db, docs, clock, uuids, calls>>
    /\ LET T == tasks[t]
           f == Top(T)
       IN  IF ds._keyring = NoObject
           THEN Step(t, Call(SLog(T, <<"this.connect", f.user, FALSE>>), "await connect",
                             ConnectFrame(f.user, FALSE)))
           ELSE Step(t, Goto(T, "return"))

\* getKey / getClient / getDsn up to the lazy connect
lazyConnect(t, fn) ==
    /\ At(t, fn, "start")
    /\ UNCHANGED <<ds, store, db, docs, clock, uuids, calls>>
    /\ LET T == tasks[t]
           f == Top(T)
       IN  IF ds._keyring = NoObject
           THEN Step(t, Call(SLog(T, <<"this.connect", f.user, TRUE>>), "await connect",
                             ConnectFrame(f.user, TRUE)))
           ELSE Step(t, Goto(T, "return"))

\* getKey / getClient / getDsn after the lazy connect: the value is read now
returnCredential(t, fn, value) ==
    /\ \/ At(t, fn, "await connect")
       \/ At(t, fn, "return")
    /\ UNCHANGED <<ds, store, db, docs, clock, uuids, calls>>
    /\ LET T == tasks[t]
       IN  IF Top(T).pc = "await connect" /\ T.ret.t = "throw"
           THEN Step(t, Return(T, T.ret))
           ELSE IF fn = "getKey" /\ ds._keyring = NoObject
           THEN Step(t, Return(T, Throw(TypeError)))
           ELSE Step(t, Return(T, Ok(value)))

getKey(t) == lazyConnect(t, "getKey")
getKey_return(t) ==
    returnCredential(t, "getKey", ds._keyring.symKey)  \* a TypeError without a keyring
getClient(t) == lazyConnect(t, "getClient")
getClient_return(t) == returnCredential(t, "getClient", ds._client)
getDsn(t) == lazyConnect(t, "getDsn")
getDsn_return(t) == returnCredential(t, "getDsn", ds._dsn)

----------------------------------------------------------------------------
(* Calls made on the DataServer by the application *)

Call_connect(t) ==
    /\ \E user \in Users, force \in BOOLEAN : Invoke(t, "connect", ConnectFrame(user, force))
    /\ UNCHANGED <<ds, store, db, docs, clock, uuids>>

Call_logout(t) ==
    /\ Invoke(t, "logout", LogoutFrame)
    /\ UNCHANGED <<ds, store, db, docs, clock, uuids>>

Call_getPublicCredentials(t) ==
    /\ Invoke(t, "getPublicCredentials", PublicCredentialsFrame)
    /\ UNCHANGED <<ds, store, db, docs, clock, uuids>>

Call_getKey(t) ==
    /\ \E user \in Users : Invoke(t, "getKey", CredentialFrame("getKey", user))
    /\ UNCHANGED <<ds, store, db, docs, clock, uuids>>

Call_getClient(t) ==
    /\ \E user \in Users : Invoke(t, "getClient", CredentialFrame("getClient", user))
    /\ UNCHANGED <<ds, store, db, docs, clock, uuids>>

Call_getDsn(t) ==
    /\ \E user \in Users : Invoke(t, "getDsn", CredentialFrame("getDsn", user))
    /\ UNCHANGED <<ds, store, db, docs, clock, uuids>>

----------------------------------------------------------------------------
(* The session on its own *)

\* What an earlier session of the same browser may have left in the LocalCache.
CachedSessions ==
    { [k \in {} |-> null],
      [k \in {StorageKey(AppName, UserA)} |->
          [signature |-> SignatureOf(UserA), dsn |-> DsnOf(UserA),
           vid |-> VidOf(UserA), publicCredentials |-> null]] }

SessionInit ==
    /\ ds = DataServer
    /\ store \in CachedSessions
    /\ db = NoObject
    /\ docs = <<>>
    /\ clock = 1
    /\ uuids = 0
    /\ tasks = [t \in Tasks |-> IdleTask]
    /\ running = 0
    /\ calls = 0

SessionNext ==
    \E t \in Tasks :
        \/ Call_connect(t)
        \/ Call_logout(t)
        \/ Call_getPublicCredentials(t)
        \/ Call_getKey(t)
        \/ Call_getClient(t)
        \/ Call_getDsn(t)
        \/ connect(t)
        \/ connect_getAppConfig(t)
        \/ _getUser(t)
        \/ _getUser_getUser(t)
        \/ _getUser_createUser(t)
        \/ connect_afterGetUser(t)
        \/ logout(t)
        \/ getPublicCredentials(t)
        \/ getPublicCredentials_getPublicUser(t)
        \/ getKey(t)
        \/ getKey_return(t)
        \/ getClient(t)
        \/ getClient_return(t)
        \/ getDsn(t)
        \/ getDsn_return(t)
        \/ Settle(t)

SessionSpec == SessionInit /\ [][SessionNext]_vars

----------------------------------------------------------------------------
(* Database *)

ErrReadOnlySave == <<"Unable to save. Read only.">>
ErrReadOnlyDelete == <<"Unable to delete. Read only.">>
ErrUnknownPermissions == <<"Unknown database permissions requested">>
ErrNoSigner == <<"Unable to sign data. No signing user specified.">>
ErrMissingDsn == <<"Unable to determine remote DSN">>
ErrOwnerDatabase == "Error creating owner database"
ErrPublicDatabase == "Error instantiating public database"
ErrEncryptedDatabase == "Error instantiating encrypted database"
GetDbError == <<"getDb failed">>
PutError == <<"conflict">>
NotFound == <<"missing">>

\* new Error(prefix + ": " + err.message)
Wrap(prefix, err) == <<prefix>> \o err

Permissions == {"owner", "public", "users"}
DbName == "notes-db"
ConfigKey == "config.encryptionKey"

\* A user object as a signer: its signData either signs before it returns or is async.
Signer(did, async) == [did |-> did, async |-> async]

\* What a signature is made over: the record without its signature.
Content(data) == <<data._id, data.insertedAt, data.modifiedAt, data._deleted>>
NoSignature == [by |-> null, over |-> <<>>]
\* signUser.signData(data, signAppName): the record with the signer's signature over it
Signed(data, signer) == [data EXCEPT !.signature = [by |-> signer.did, over |-> Content(data)]]
\* The record carries a signature made over what it now holds.
ValidSignature(data) ==
    data.signature.by # null /\ data.signature.over = Content(data)

\* did.toLowerCase(), on the identifiers in use
toLowerCase(did) ==
    CASE did = "DID:A" -> "did:a"
      [] did = "DID:B" -> "did:b"
      [] OTHER -> did

\* constructor(dbName, did, appName, dataserver, config)
Database(dbName, did, appName, config) ==
    [dbName |-> dbName,
     did |-> toLowerCase(did),
     appName |-> appName,
     user |-> config.user,
     signUser |-> IF config.signUser # NoObject THEN config.signUser
                  ELSE IF config.user # null THEN Signer(config.user, config.asyncSigner)
                  ELSE NoObject,
     permissions |-> config.permissions,
     readOnly |-> config.readOnly,
     encryptionKey |-> config.encryptionKey,
     isOwner |-> config.isOwner,
     _dbHash |-> null,
     _db |-> NoObject,
     _originalDb |-> NoObject]

\* crypto.createHash('md5').update(text).digest("hex"): a hash of the text
md5(text) == "md5(" \o text \o ")"

\* getDatabaseHash(): the Database with the hash cached
getDatabaseHash(D) ==
    IF D._dbHash # null THEN D
    ELSE [D EXCEPT !._dbHash =
            "v" \o md5(D.did \o "/" \o D.appName \o "/" \o D.dbName \o "/"
                       \o D.permissions.read \o "/" \o D.permissions.write)]

\* new EncryptedDatabase(dbHashName, dataserver, encryptionKey, remoteDsn, did, permissions)
EncryptedDatabase(dbHashName, encryptionKey, remoteDsn, did, permissions) ==
    [kind |-> "EncryptedDatabase", name |-> dbHashName, encryptionKey |-> encryptionKey,
     remoteDsn |-> remoteDsn, did |-> did, permissions |-> permissions]

\* new PublicDatabase(dbHashName, dataserver, did, permissions, isOwner)
PublicDatabase(dbHashName, did, permissions, isOwner) ==
    [kind |-> "PublicDatabase", name |-> dbHashName, did |-> did,
     permissions |-> permissions, isOwner |-> isOwner]

InitFrame ==
    [fn |-> "_init", pc |-> "start", path |-> "none", encryptionKey |-> null,
     backend |-> NoObject]

\* _init()'s choice as it would be if the users test came before the public test.
route_usersFirst(read, write) ==
    CASE read = "owner" /\ write = "owner" -> "owner"
      [] read = "users" \/ write = "users" -> "users"
      [] read = "public" -> "public"
      [] OTHER -> "unknown"

\* The backend _init() chooses for a pair of permissions.
route(read, write) ==
    CASE read = "owner" /\ write = "owner" -> "owner"
      [] read = "public" -> "public"
      [] read = "users" \/ write = "users" -> "users"
      [] OTHER -> "unknown"

\* _init() as it would be if it did not test this._db.
initialized_never(D) == FALSE

\* if (this._db) return: the backend is memoized
initialized(D) == D._db # NoObject

\* _init(), up to its first await
_init(t) ==
    /\ At(t, "_init", "start")
    /\ UNCHANGED <<ds, store, docs, clock, uuids, calls>>
    /\ LET T == tasks[t]
           f == Top(T)
           D == getDatabaseHash(db)
           T0 == Log(T, <<"getDatabaseHash", D._dbHash>>)
           path == route(db.permissions.read, db.permissions.write)
       IN  IF initialized(db)
           THEN /\ Step(t, Return(T, Ok(null)))
                /\ UNCHANGED db
           ELSE /\ db' = D
                /\ CASE path = "owner" ->
                        Step(t, Call(Log(SetTop(T0, [f EXCEPT !.path = "owner"]),
                                         <<"dataserver.getKey", db.user>>),
                                     "await getKey", CredentialFrame("getKey", db.user)))
                     [] path = "public" ->
                        LET backend == PublicDatabase(D._dbHash, db.did, db.permissions,
                                                      db.isOwner)
                        IN  Step(t, Goto(Log(SetTop(T0, [f EXCEPT !.path = "public",
                                                                 !.backend = backend]),
                                             <<"new PublicDatabase", backend>>),
                                         "await db.getDb"))
                     [] path = "users" ->
                        Step(t, Call(Log(SetTop(T0, [f EXCEPT !.path = "users",
                                                     !.encryptionKey = db.encryptionKey]),
                                         <<"dataserver.getDsn", db.user>>),
                                     "await getDsn", CredentialFrame("getDsn", db.user)))
                     [] OTHER ->
                        Step(t, Return(T0, Throw(ErrUnknownPermissions)))

\* _init() on the owner path, after getKey
_init_afterGetKey(t) ==
    /\ At(t, "_init", "await getKey")
    /\ UNCHANGED <<ds, store, db, docs, clock, uuids, calls>>
    /\ LET T == tasks[t]
           f == Top(T)
       IN  IF T.ret.t = "throw"
           THEN Step(t, Return(T, Throw(Wrap(ErrOwnerDatabase, T.ret.e))))
           ELSE Step(t, Call(Log(Log(SetTop(T, [f EXCEPT !.encryptionKey = T.ret.v]),
                                     <<"dataserver.getKey returned", T.ret.v>>),
                                 <<"dataserver.getDsn", db.user>>),
                             "await getDsn", CredentialFrame("getDsn", db.user)))

\* _init() on the owner and users paths, after getDsn
_init_afterGetDsn(t) ==
    /\ At(t, "_init", "await getDsn")
    /\ UNCHANGED <<ds, store, docs, clock, uuids, calls>>
    /\ LET T == tasks[t]
           f == Top(T)
           prefix == IF f.path = "owner" THEN ErrOwnerDatabase ELSE ErrEncryptedDatabase
           T1 == Log(T, <<"dataserver.getDsn returned", T.ret.v>>)
       IN  IF T.ret.t = "throw"
           THEN /\ Step(t, Return(T, Throw(Wrap(prefix, T.ret.e))))
                /\ UNCHANGED db
           ELSE IF f.path = "users" /\ T.ret.v = null
           THEN /\ Step(t, Return(T1, Throw(Wrap(prefix, ErrMissingDsn))))
                /\ UNCHANGED db
           ELSE LET backend == EncryptedDatabase(db._dbHash, f.encryptionKey, T.ret.v,
                                                 db.did, db.permissions)
                IN  /\ db' = IF f.path = "users" THEN [db EXCEPT !._originalDb = backend]
                             ELSE db
                    /\ Step(t, Goto(Log(SetTop(T1, [f EXCEPT !.backend = backend]),
                                        <<"new EncryptedDatabase", backend>>),
                                    "await db.getDb"))

\* db.getDb() answers
_init_getDb(t) ==
    /\ Resumes(t, "_init", "await db.getDb")
    /\ UNCHANGED <<ds, store, docs, clock, uuids, calls>>
    /\ LET T == tasks[t]
           f == Top(T)
           prefix == CASE f.path = "owner" -> ErrOwnerDatabase
                       [] f.path = "public" -> ErrPublicDatabase
                       [] OTHER -> ErrEncryptedDatabase
       IN  \E answer \in {"ok", "error"} :
             /\ db' = IF answer = "ok" THEN [db EXCEPT !._db = f.backend] ELSE db
             /\ tasks' = [tasks EXCEPT ![t] =
                    IF answer = "ok" THEN Return(T, Ok(null))
                    ELSE Return(T, Throw(Wrap(prefix, GetDbError)))]
             /\ running' = t

\* A record that has not been saved yet.
NewRecord ==
    [_id |-> 0, insertedAt |-> 0, modifiedAt |-> 0, signature |-> NoSignature,
     _deleted |-> FALSE]

SaveFrame(data) ==
    [fn |-> "save", pc |-> "start", data |-> data, insert |-> FALSE, signing |-> FALSE,
     request |-> NoObject]

\* save(data, options): await this._init()
save(t) ==
    /\ At(t, "save", "start")
    /\ UNCHANGED <<ds, store, db, docs, clock, uuids, calls>>
    /\ Step(t, Call(tasks[t], "await _init", InitFrame))

\* save(), after _init: the read-only check and the choice of insert or update
save_afterInit(t) ==
    /\ At(t, "save", "await _init")
    /\ UNCHANGED <<ds, store, db, docs, clock, uuids, calls>>
    /\ LET T == tasks[t]
           f == Top(T)
           insert == f.data._id = 0
       IN  IF T.ret.t = "throw"
           THEN Step(t, Return(T, T.ret))
           ELSE IF db.readOnly
           THEN Step(t, Return(T, Throw(ErrReadOnlySave)))
           ELSE Step(t, Goto(SetTop(T, [f EXCEPT !.insert = insert]),
                             IF insert THEN "_beforeInsert" ELSE "_beforeUpdate"))

\* _beforeInsert(data), up to signData
_beforeInsert(t) ==
    /\ At(t, "save", "_beforeInsert")
    /\ UNCHANGED <<ds, store, db, docs, calls>>
    /\ \E insertedAt \in clock..MaxClock :
       \E modifiedAt \in insertedAt..MaxClock :
        LET T == tasks[t]
            f == Top(T)
        IN  /\ uuids' = uuids + 1
            /\ clock' = modifiedAt
            /\ Step(t, Goto(SetTop(T, [f EXCEPT !.data._id = uuids + 1,
                                                !.data.insertedAt = insertedAt,
                                                !.data.modifiedAt = modifiedAt]),
                            "signData"))

\* _beforeUpdate(data), up to signData
_beforeUpdate(t) ==
    /\ At(t, "save", "_beforeUpdate")
    /\ UNCHANGED <<ds, store, db, docs, uuids, calls>>
    /\ \E modifiedAt \in clock..MaxClock :
        LET T == tasks[t]
            f == Top(T)
        IN  /\ clock' = modifiedAt
            /\ Step(t, Goto(SetTop(T, [f EXCEPT !.data.modifiedAt = modifiedAt]),
                            "signData"))

\* signData(data): the signer is called and its result is not awaited
signData(t) ==
    /\ At(t, "save", "signData")
    /\ UNCHANGED <<ds, store, db, docs, clock, uuids, calls>>
    /\ LET T == tasks[t]
           f == Top(T)
           T1 == Log(T, <<"signData">>)
       IN  IF db.signUser = NoObject
           THEN Step(t, Return(T1, Throw(ErrNoSigner)))
           ELSE IF db.signUser.async
           THEN Step(t, Goto(SetTop(Log(T1, <<"signUser.signData", "called">>),
                                    [f EXCEPT !.signing = TRUE]),
                             "await signData"))
           ELSE Step(t, Goto(SetTop(Log(Log(T1, <<"signUser.signData", "called">>),
                                        <<"signUser.signData", "signed">>),
                                    [f EXCEPT !.data = Signed(f.data, db.signUser)]),
                             "await signData"))

\* An async signUser.signData finishes: the record it was given gets its signature.
\* It runs when the event loop is free, or while save awaits this.signData(data).
signUser_signData(t) ==
    /\ tasks[t].status = "active"
    /\ Top(tasks[t]).fn = "save"
    /\ Top(tasks[t]).signing
    /\ \/ running = 0
       \/ running = t /\ Top(tasks[t]).pc = "await signData"
    /\ UNCHANGED <<ds, store, db, docs, clock, uuids, calls, running>>
    /\ LET T == tasks[t]
           f == Top(T)
       IN  tasks' = [tasks EXCEPT ![t] =
                SetTop(Log(T, <<"signUser.signData", "signed">>),
                       [f EXCEPT !.signing = FALSE, !.data = Signed(f.data, db.signUser)])]

\* save(): the before-notification and the call of this._db.put(data, options)
save_put(t) ==
    /\ At(t, "save", "await signData")
    /\ UNCHANGED <<ds, store, db, docs, clock, uuids, calls>>
    /\ LET T == tasks[t]
           f == Top(T)
           before == IF f.insert THEN "beforeInsert" ELSE "beforeUpdate"
       IN  Step(t, Goto(SetTop(Log(Log(T, <<"emit", before>>), <<"_db.put", f.data>>),
                               [f EXCEPT !.request = f.data]),
                        "await _db.put"))

\* The document store's put: the document replaces the one held under its _id.
backendPut(held, doc) ==
    [id \in DOMAIN held \cup {doc._id} |-> IF id = doc._id THEN doc ELSE held[id]]

\* The document store's get: a document that is absent or flagged deleted is missing.
backendGet(held, docId) ==
    IF docId \in DOMAIN held /\ ~held[docId]._deleted THEN Ok(held[docId])
    ELSE Throw(NotFound)

\* this._db.put answers; on success the after-notification is emitted
save_afterPut(t) ==
    /\ Resumes(t, "save", "await _db.put")
    /\ UNCHANGED <<ds, store, db, clock, uuids, calls>>
    /\ LET T == tasks[t]
           f == Top(T)
           after == IF f.insert THEN "afterInsert" ELSE "afterUpdate"
       IN  \E answer \in {"ok", "error"} :
             /\ docs' = IF answer = "ok" THEN backendPut(docs, f.request) ELSE docs
             /\ tasks' = [tasks EXCEPT ![t] =
                    IF answer = "ok"
                    THEN Return(Log(T, <<"emit", after>>), Ok([ok |-> TRUE, id |-> f.request._id]))
                    ELSE Return(T, Throw(PutError))]
             /\ running' = t

GetFrame(docId) == [fn |-> "get", pc |-> "start", docId |-> docId]

\* get(docId, options): await this._init()
get(t) ==
    /\ At(t, "get", "start")
    /\ UNCHANGED <<ds, store, db, docs, clock, uuids, calls>>
    /\ Step(t, Call(tasks[t], "await _init", InitFrame))

\* get(), after _init: the call of this._db.get(docId, options)
get_afterInit(t) ==
    /\ At(t, "get", "await _init")
    /\ UNCHANGED <<ds, store, db, docs, clock, uuids, calls>>
    /\ LET T == tasks[t]
       IN  IF T.ret.t = "throw"
           THEN Step(t, Return(T, T.ret))
           ELSE Step(t, Goto(Log(T, <<"_db.get", Top(T).docId>>), "await _db.get"))

\* this._db.get answers
get_afterGet(t) ==
    /\ Resumes(t, "get", "await _db.get")
    /\ UNCHANGED <<ds, store, db, docs, clock, uuids, calls>>
    /\ tasks' = [tasks EXCEPT ![t] = Return(tasks[t], backendGet(docs, Top(tasks[t]).docId))]
    /\ running' = t

\* doc is an identifier (isId) or a record
DeleteFrame(isId, doc) == [fn |-> "delete", pc |-> "start", isId |-> isId, doc |-> doc]

\* delete(doc, options), up to its first await
delete(t) ==
    /\ At(t, "delete", "start")
    /\ UNCHANGED <<ds, store, db, docs, clock, uuids, calls>>
    /\ LET T == tasks[t]
           f == Top(T)
       IN  IF db.readOnly
           THEN Step(t, Return(T, Throw(ErrReadOnlyDelete)))
           ELSE IF f.isId
           THEN Step(t, Call(T, "await get", GetFrame(f.doc)))
           ELSE Step(t, Call(T, "await save", SaveFrame([f.doc EXCEPT !._deleted = TRUE])))

\* delete(), after the document was fetched
delete_afterGet(t) ==
    /\ At(t, "delete", "await get")
    /\ UNCHANGED <<ds, store, db, docs, clock, uuids, calls>>
    /\ LET T == tasks[t]
       IN  IF T.ret.t = "throw"
           THEN Step(t, Return(T, T.ret))
           ELSE Step(t, Call(T, "await save", SaveFrame([T.ret.v EXCEPT !._deleted = TRUE])))

\* delete() returns what save returned
delete_afterSave(t) ==
    /\ At(t, "delete", "await save")
    /\ UNCHANGED <<ds, store, db, docs, clock, uuids, calls>>
    /\ Step(t, Return(tasks[t], tasks[t].ret))

----------------------------------------------------------------------------
(* Database: getMany, applySortFix, getInstance *)

\* JavaScript values: undefined, and an array (kept apart from objects).
undefined == [undefined |-> TRUE]
List(items) == [array |-> items]

DefaultLimit == 20
FindError == <<"find failed">>

\* An element of options.sort: an object {field: direction, ...} with its keys in
\* insertion order, or a string naming the field.
ObjectItem(keys) == [isString |-> FALSE, text |-> "", length |-> 0, keys |-> keys]
StringItem(text, length) == [isString |-> TRUE, text |-> text, length |-> length, keys |-> <<>>]

\* for (var fieldName in sort): the keys of an object, the indices of a string
ForIn(sort) ==
    IF sort.isString THEN [i \in 1..sort.length |-> ToString(i - 1)] ELSE sort.keys

\* d = {}; d[fieldName] = {$gt: true}
GtTrue(fieldName) == fieldName :> ("$gt" :> TRUE)

\* The conjuncts applySortFix pushes for sortItems[from..], in order.
RECURSIVE SortConjuncts(_, _)
SortConjuncts(sortItems, from) ==
    IF from > Len(sortItems) THEN <<>>
    ELSE [i \in 1..Len(ForIn(sortItems[from])) |-> GtTrue(ForIn(sortItems[from])[i])]
         \o SortConjuncts(sortItems, from + 1)

\* applySortFix(filter, sortItems)
applySortFix(filter, sortItems) ==
    IF Len(sortItems) # 0
    THEN "$and" :> (<<filter>> \o SortConjuncts(sortItems, 1))
    ELSE filter

\* _.merge(object, source) on objects whose common keys hold plain values
merge(object, source) ==
    IF object = undefined THEN source
    ELSE [k \in DOMAIN object \cup DOMAIN source |->
            IF k \in DOMAIN source THEN source[k] ELSE object[k]]

\* The options getMany hands to this._db.find, from its arguments.
FindOptions(filter, options) ==
    LET filter1 == IF filter = undefined THEN <<>> ELSE filter
        limit == IF options.limit = <<>> THEN DefaultLimit ELSE options.limit[1]
        filter2 == applySortFix(filter1, options.sort)
    IN  [limit |-> limit, sort |-> options.sort, selector |-> merge(options.selector, filter2)]

\* sort: <<>> stands for no sort given; limit: <<>> for no limit given
GetManyFrame(filter, options) ==
    [fn |-> "getMany", pc |-> "start", filter |-> filter, options |-> options]

\* getMany(filter, options): await this._init()
getMany(t) ==
    /\ At(t, "getMany", "start")
    /\ UNCHANGED <<ds, store, db, docs, clock, uuids, calls>>
    /\ Step(t, Call(tasks[t], "await _init", InitFrame))

\* getMany(), after _init: the options are put together and this._db.find is called
getMany_afterInit(t) ==
    /\ At(t, "getMany", "await _init")
    /\ UNCHANGED <<ds, store, db, docs, clock, uuids, calls>>
    /\ LET T == tasks[t]
           f == Top(T)
       IN  IF T.ret.t = "throw"
           THEN Step(t, Return(T, T.ret))
           ELSE Step(t, Goto(Log(T, <<"_db.find", FindOptions(f.filter, f.options)>>),
                             "await _db.find"))

\* The ids in ascending order.
RECURSIVE Ascending(_)
Ascending(ids) ==
    IF ids = {} THEN <<>>
    ELSE LET least == CHOOSE i \in ids : \A j \in ids : i <= j
         IN  <<least>> \o Ascending(ids \ {least})

\* The document store's find: the documents it holds that are not flagged deleted.
backendFind(held, options) ==
    LET ids == Ascending({id \in DOMAIN held : ~held[id]._deleted})
    IN  [docs |-> List([i \in 1..Len(ids) |-> held[ids[i]]])]

\* this._db.find answers: a result, nothing, or an error, which is logged
getMany_afterFind(t) ==
    /\ Resumes(t, "getMany", "await _db.find")
    /\ UNCHANGED <<ds, store, db, docs, clock, uuids, calls>>
    /\ LET T == tasks[t]
           f == Top(T)
           result == backendFind(docs, FindOptions(f.filter, f.options))
       IN  \E answer \in {"docs", "nothing", "error"} :
             /\ tasks' = [tasks EXCEPT ![t] =
                    CASE answer = "docs" ->
                            Return(T, Ok(IF f.options.raw THEN result ELSE result.docs))
                      [] answer = "nothing" -> Return(T, Ok(undefined))
                      [] OTHER -> Return(Log(T, <<"console.log", FindError>>), Ok(undefined))]
             /\ running' = t

GetInstanceFrame == [fn |-> "getInstance", pc |-> "start"]

\* getInstance(): await this._init()
getInstance(t) ==
    /\ At(t, "getInstance", "start")
    /\ UNCHANGED <<ds, store, db, docs, clock, uuids, calls>>
    /\ Step(t, Call(tasks[t], "await _init", InitFrame))

\* getInstance(), after _init: return this._db
getInstance_return(t) ==
    /\ At(t, "getInstance", "await _init")
    /\ UNCHANGED <<ds, store, db, docs, clock, uuids, calls>>
    /\ LET T == tasks[t]
       IN  IF T.ret.t = "throw"
           THEN Step(t, Return(T, T.ret))
           ELSE Step(t, Return(T, Ok(db._db)))

----------------------------------------------------------------------------
(* Calls made on the Database by the application *)

\* The identifiers and records an application may pass: what the store holds.
HeldIds == DOMAIN docs

Call_save(t) ==
    /\ \E data \in {NewRecord} \cup {docs[id] : id \in HeldIds} :
            Invoke(t, "save", SaveFrame(data))
    /\ UNCHANGED <<ds, store, db, docs, clock, uuids>>

Call_get(t) ==
    /\ \E docId \in HeldIds : Invoke(t, "get", GetFrame(docId))
    /\ UNCHANGED <<ds, store, db, docs, clock, uuids>>

Call_delete(t) ==
    /\ \/ \E docId \in HeldIds : Invoke(t, "delete", DeleteFrame(TRUE, docId))
       \/ \E id \in HeldIds : Invoke(t, "delete", DeleteFrame(FALSE, docs[id]))
    /\ UNCHANGED <<ds, store, db, docs, clock, uuids>>

\* getMany with no filter and no options.
PlainQuery == [filter |-> undefined,
               options |-> [limit |-> <<>>, sort |-> <<>>, selector |-> undefined,
                            raw |-> FALSE]]

Call_getMany(t) ==
    /\ Invoke(t, "getMany", GetManyFrame(PlainQuery.filter, PlainQuery.options))
    /\ UNCHANGED <<ds, store, db, docs, clock, uuids>>

Call_getInstance(t) ==
    /\ Invoke(t, "getInstance", GetInstanceFrame)
    /\ UNCHANGED <<ds, store, db, docs, clock, uuids>>

----------------------------------------------------------------------------
(* The Database on its DataServer *)

\* The configurations a Database is opened with.
Configs ==
    [permissions : [read : Permissions, write : Permissions],
     readOnly : BOOLEAN,
     user : {UserA},
     signUser : {NoObject},
     asyncSigner : BOOLEAN,
     encryptionKey : {ConfigKey},
     isOwner : {TRUE}]
    \cup
    [permissions : [read : Permissions, write : Permissions],
     readOnly : BOOLEAN,
     user : {null},
     signUser : {NoObject},
     asyncSigner : {FALSE},
     encryptionKey : {ConfigKey},
     isOwner : {FALSE}]

\* A document an earlier session saved.
HeldRecord ==
    Signed([_id |-> 1, insertedAt |-> 1, modifiedAt |-> 1, signature |-> NoSignature,
            _deleted |-> FALSE], Signer(UserA, FALSE))

\* The documents the backend holds when the Database is constructed.
Init_docs == <<HeldRecord>>

Init ==
    /\ ds = DataServer
    /\ store = [k \in {} |-> null]
    /\ \E config \in Configs : db = Database(DbName, UserA, AppName, config)
    /\ docs = Init_docs
    /\ clock = 1
    /\ uuids = 1
    /\ tasks = [t \in Tasks |-> IdleTask]
    /\ running = 0
    /\ calls = 0

Next ==
    \E t \in Tasks :
        \/ Call_save(t)
        \/ Call_get(t)
        \/ Call_delete(t)
        \/ Call_getMany(t)
        \/ Call_getInstance(t)
        \/ connect(t)
        \/ connect_getAppConfig(t)
        \/ _getUser(t)
        \/ _getUser_getUser(t)
        \/ _getUser_createUser(t)
        \/ connect_afterGetUser(t)
        \/ getKey(t)
        \/ getKey_return(t)
        \/ getDsn(t)
        \/ getDsn_return(t)
        \/ _init(t)
        \/ _init_afterGetKey(t)
        \/ _init_afterGetDsn(t)
        \/ _init_getDb(t)
        \/ save(t)
        \/ save_afterInit(t)
        \/ _beforeInsert(t)
        \/ _beforeUpdate(t)
        \/ signData(t)
        \/ signUser_signData(t)
        \/ save_put(t)
        \/ save_afterPut(t)
        \/ get(t)
        \/ get_afterInit(t)
        \/ get_afterGet(t)
        \/ delete(t)
        \/ delete_afterGet(t)
        \/ delete_afterSave(t)
        \/ getMany(t)
        \/ getMany_afterInit(t)
        \/ getMany_afterFind(t)
        \/ getInstance(t)
        \/ getInstance_return(t)
        \/ Settle(t)

Spec == Init /\ [][Next]_vars

----------------------------------------------------------------------------
(* A Database used by one call at a time *)

\* No call is in flight.
Quiet == \A t \in Tasks : tasks[t].status = "idle"

\* Each call is made after the one before it has returned.
SequentialNext ==
    \E t \in Tasks :
        \/ Quiet /\ Call_save(t)
        \/ Quiet /\ Call_get(t)
        \/ Quiet /\ Call_delete(t)
        \/ Quiet /\ Call_getMany(t)
        \/ Quiet /\ Call_getInstance(t)
        \/ connect(t)
        \/ connect_getAppConfig(t)
        \/ _getUser(t)
        \/ _getUser_getUser(t)
        \/ _getUser_createUser(t)
        \/ connect_afterGetUser(t)
        \/ getKey(t)
        \/ getKey_return(t)
        \/ getDsn(t)
        \/ getDsn_return(t)
        \/ _init(t)
        \/ _init_afterGetKey(t)
        \/ _init_afterGetDsn(t)
        \/ _init_getDb(t)
        \/ save(t)
        \/ save_afterInit(t)
        \/ _beforeInsert(t)
        \/ _beforeUpdate(t)
        \/ signData(t)
        \/ signUser_signData(t)
        \/ save_put(t)
        \/ save_afterPut(t)
        \/ get(t)
        \/ get_afterInit(t)
        \/ get_afterGet(t)
        \/ delete(t)
        \/ delete_afterGet(t)
        \/ delete_afterSave(t)
        \/ getMany(t)
        \/ getMany_afterInit(t)
        \/ getMany_afterFind(t)
        \/ getInstance(t)
        \/ getInstance_return(t)
        \/ Settle(t)

SequentialSpec == Init /\ [][SequentialNext]_vars

----------------------------------------------------------------------------
(* Databases of several names *)

\* What a Database is constructed with: dbName, did, appName and the permissions.
IdentityInputs ==
    [dbName : {"db", "x/db"},
     did : {"did:a", "DID:A", "did:b"},
     appName : {"notes", "notes/x"},
     permissions : {[read |-> "public", write |-> "owner"],
                    [read |-> "public", write |-> "public"],
                    [read |-> "owner", write |-> "public"]}]

\* new Database(dbName, did, appName, dataserver, config) for the inputs
DatabaseFor(in) ==
    Database(in.dbName, in.did, in.appName,
             [permissions |-> in.permissions, readOnly |-> FALSE, user |-> UserA,
              signUser |-> NoObject, asyncSigner |-> FALSE, encryptionKey |-> ConfigKey,
              isOwner |-> TRUE])

IdentityInit ==
    /\ ds = DataServer
    /\ store = [k \in {} |-> null]
    /\ \E in \in IdentityInputs : db = DatabaseFor(in)
    /\ docs = Init_docs
    /\ clock = 1
    /\ uuids = 1
    /\ tasks = [t \in Tasks |-> IdleTask]
    /\ running = 0
    /\ calls = 0

IdentityNext ==
    \E t \in Tasks :
        \/ Call_getInstance(t)
        \/ getInstance(t)
        \/ _init(t)
        \/ _init_getDb(t)
        \/ getInstance_return(t)
        \/ Settle(t)

IdentitySpec == IdentityInit /\ [][IdentityNext]_vars

----------------------------------------------------------------------------
(* Queries on an initialized Database *)

MaxSort == 2

SortItems == {ObjectItem(<<"age">>), ObjectItem(<<"age", "name">>), StringItem("age", 3)}

Sorts == UNION {[1..n -> SortItems] : n \in 0..MaxSort}

\* The arguments getMany is called with: a filter and a sort order, or a filter and
\* the other options.
Queries ==
    [filter : {undefined, "status" :> "active"},
     options : [limit : {<<>>}, sort : Sorts, selector : {undefined}, raw : {FALSE}]]
    \cup
    [filter : {undefined, "status" :> "active"},
     options : [limit : {<<>>, <<5>>},
                sort : {<<>>, <<ObjectItem(<<"age">>)>>},
                selector : {undefined, "type" :> "note"},
                raw : BOOLEAN]]

Call_getManySorted(t) ==
    /\ \E query \in Queries : Invoke(t, "getMany", GetManyFrame(query.filter, query.options))
    /\ UNCHANGED <<ds, store, db, docs, clock, uuids>>

\* A Database with public read whose first operation has initialized the backend.
QueryInit ==
    /\ ds = DataServer
    /\ store = [k \in {} |-> null]
    /\ \E config \in Configs :
         /\ config.permissions = [read |-> "public", write |-> "owner"]
         /\ config.user = UserA
         /\ ~config.asyncSigner
         /\ LET D == getDatabaseHash(Database(DbName, UserA, AppName, config))
            IN  db = [D EXCEPT !._db = PublicDatabase(D._dbHash, D.did, D.permissions,
                                                      D.isOwner)]
    /\ docs = Init_docs
    /\ clock = 1
    /\ uuids = 1
    /\ tasks = [t \in Tasks |-> IdleTask]
    /\ running = 0
    /\ calls = 0

QueryNext ==
    \E t \in Tasks :
        \/ Call_getManySorted(t)
        \/ getMany(t)
        \/ _init(t)
        \/ getMany_afterInit(t)
        \/ getMany_afterFind(t)
        \/ Settle(t)

QuerySpec == QueryInit /\ [][QueryNext]_vars

----------------------------------------------------------------------------
(* What the claims are stated with *)

Done(t) == tasks[t].status = "done"

\* The places of the task's log that hold a call of one of the kinds.
Entries(T, kinds) == {i \in 1..Len(T.log) : T.log[i][1] \in kinds}
Has(T, kinds) == Entries(T, kinds) # {}

IdentityCalls == {"user.getAppConfig", "client.getUser", "client.createUser"}
Constructions == {"new EncryptedDatabase", "new PublicDatabase"}

CacheHit(T) == \E i \in Entries(T, {"store.get"}) : T.log[i][3] = "hit"
CacheMiss(T) == \E i \in Entries(T, {"store.get"}) : T.log[i][3] = "miss"

----------------------------------------------------------------------------
(* C1 *)

\* C1: in every save, this._db.put is called only after signing has completed: with
\* no signer the signing step fails with NoSignerError and put is never called, and
\* with a signer (also an async one) the signature is in place when put starts.
C1_PutOnlyAfterSigning ==
    \A t \in Tasks :
        LET T == tasks[t]
        IN  /\ \A i \in Entries(T, {"_db.put"}) :
                 /\ db.signUser # NoObject
                 /\ \E j \in 1..(i - 1) : T.log[j] = <<"signUser.signData", "signed">>
                 /\ ValidSignature(T.log[i][2])
            /\ (Done(t) /\ db.signUser = NoObject /\ Has(T, {"signData"}))
                 => T.ret = Throw(ErrNoSigner) /\ ~Has(T, {"_db.put"})

----------------------------------------------------------------------------
(* C2 *)

\* The backends the task's call has constructed.
Built(T) == {T.log[i][2] : i \in Entries(T, Constructions)}

\* The call ran _init() on a Database that had no backend yet.
RanInit(T) == Has(T, {"getDatabaseHash"})

OwnerRoute(t, T) ==
    /\ \A i \in Entries(T, Constructions) :
         /\ T.log[i][1] = "new EncryptedDatabase"
         /\ \E j \in 1..(i - 1) : \E k \in (j + 1)..(i - 1) :
              /\ T.log[j][1] = "dataserver.getKey returned"
              /\ T.log[k][1] = "dataserver.getDsn returned"
              /\ T.log[i][2].encryptionKey = T.log[j][2]
              /\ T.log[i][2].remoteDsn = T.log[k][2]
    /\ (Done(t) /\ RanInit(T) /\ Has(T, {"_db.get", "signData"})) => Built(T) # {}

PublicRoute(t, T) ==
    /\ \A i \in Entries(T, Constructions) : T.log[i][1] = "new PublicDatabase"
    /\ ~Has(T, {"dataserver.getKey"})
    /\ RanInit(T) => Built(T) # {}

UsersRoute(t, T) ==
    /\ \A i \in Entries(T, Constructions) :
         /\ T.log[i][1] = "new EncryptedDatabase"
         /\ T.log[i][2].encryptionKey = db.encryptionKey
    /\ \A i \in Entries(T, {"dataserver.getDsn returned"}) :
         T.log[i][2] = null =>
            /\ Built(T) = {}
            /\ Done(t) => T.ret = Throw(Wrap(ErrEncryptedDatabase, ErrMissingDsn))

UnknownRoute(t, T) ==
    /\ Built(T) = {}
    /\ ~Has(T, {"dataserver.getKey", "dataserver.getDsn"})
    /\ (Done(t) /\ RanInit(T)) => T.ret = Throw(ErrUnknownPermissions)

\* C2 as stated: read=write=owner takes the owner route (key and DSN requested, then
\* an EncryptedDatabase), read=public the public route (a PublicDatabase, no key
\* requested), read=users or write=users the users route (an EncryptedDatabase with
\* the caller's key, MissingDsnError without a DSN), every other pair fails with
\* UnknownPermissionError and constructs nothing.
C2_RoutingAsStated ==
    \A t \in Tasks :
        LET T == tasks[t]
            read == db.permissions.read
            write == db.permissions.write
        IN  /\ (read = "owner" /\ write = "owner") => OwnerRoute(t, T)
            /\ read = "public" => PublicRoute(t, T)
            /\ (read = "users" \/ write = "users") => UsersRoute(t, T)
            /\ ~(read = "owner" /\ write = "owner") /\ read # "public"
                 /\ ~(read = "users" \/ write = "users") => UnknownRoute(t, T)

\* C2, amended: as stated, but read=public takes the public route also when
\* write=users; the users route is taken by read=users, and by write=users when
\* read is not public.
C2_Routing ==
    \A t \in Tasks :
        LET T == tasks[t]
            read == db.permissions.read
            write == db.permissions.write
        IN  /\ (read = "owner" /\ write = "owner") => OwnerRoute(t, T)
            /\ read = "public" => PublicRoute(t, T)
            /\ (read # "public" /\ (read = "users" \/ write = "users")) => UsersRoute(t, T)
            /\ ~(read = "owner" /\ write = "owner") /\ read # "public"
                 /\ ~(read = "users" \/ write = "users") => UnknownRoute(t, T)

\* A call on a Database with read=public, write=users has constructed its backend,
\* a PublicDatabase.
C2_Witness ==
    \E t \in Tasks :
        /\ db.permissions = [read |-> "public", write |-> "users"]
        /\ \E i \in Entries(tasks[t], Constructions) :
             tasks[t].log[i][1] = "new PublicDatabase"

----------------------------------------------------------------------------
(* C3 *)

\* C3: on a read-only Database every save and every delete fails with ReadOnlyError,
\* whatever the permissions and the session, and this._db.put is never called.
C3_ReadOnlyRejected ==
    db.readOnly =>
        \A t \in Tasks :
            /\ (Done(t) /\ tasks[t].op = "save") => tasks[t].ret = Throw(ErrReadOnlySave)
            /\ (Done(t) /\ tasks[t].op = "delete") => tasks[t].ret = Throw(ErrReadOnlyDelete)
            /\ ~Has(tasks[t], {"_db.put"})

----------------------------------------------------------------------------
(* C4 *)

\* C4: connect contacts the identity layer only when the LocalCache holds no entry
\* under its key and force is true; with an entry it restores the credentials and
\* returns true with no identity call; with no entry and force=false it returns
\* false with no identity call and no cache write.
C4_IdentityOnlyWhenForced ==
    \A t \in Tasks :
        LET T == tasks[t]
        IN  T.op = "connect" =>
              /\ Has(T, IdentityCalls) => (CacheMiss(T) /\ ~CacheHit(T) /\ T.call.force)
              /\ (Done(t) /\ CacheHit(T)) =>
                    /\ T.ret = Ok(TRUE)
                    /\ ~Has(T, IdentityCalls)
                    /\ Has(T, {"unserialize"})
                    /\ ds._keyring # NoObject
              /\ (Done(t) /\ CacheMiss(T) /\ ~T.call.force) =>
                    /\ T.ret = Ok(FALSE)
                    /\ ~Has(T, IdentityCalls \cup {"store.set", "unserialize"})

\* A connect with force=true has found the cache entry and returned.
C4_Witness ==
    \E t \in Tasks :
        /\ tasks[t].op = "connect"
        /\ Done(t)
        /\ tasks[t].call.force
        /\ CacheHit(tasks[t])

----------------------------------------------------------------------------
(* C5 *)

\* C5: a connect(user, true) that found no cache entry and returned true leaves the
\* serialized form of the session's credentials in the LocalCache under
\* STORAGE_KEY + appName + did; one that failed wrote nothing and set up no Keyring.
C5_CachePersisted ==
    \A t \in Tasks :
        LET T == tasks[t]
            key == StorageKey(AppName, T.call.user)
        IN  (T.op = "connect" /\ Done(t) /\ T.call.force /\ CacheMiss(T)) =>
              /\ T.ret = Ok(TRUE) =>
                    /\ key \in DOMAIN store
                    /\ store[key] = serialize(ds)
              /\ T.ret.t = "throw" => ~Has(T, {"store.set", "unserialize"})

----------------------------------------------------------------------------
(* C6 *)

\* C6: once a connect has established credentials, every later connect returns true
\* without reading the LocalCache, contacting the identity server or replacing the
\* Keyring, vid, dsn or client credentials.
C6_ConnectIsNoOp ==
    \A t \in Tasks :
        LET T == tasks[t]
        IN  (T.op = "connect" /\ T.pre._user # null) =>
              /\ ~Has(T, IdentityCalls \cup {"store.get", "unserialize"})
              /\ Done(t) => T.ret = Ok(TRUE)

----------------------------------------------------------------------------
(* C7 *)

\* C7: after connect calls that have all returned, followed by logout, the LocalCache
\* holds no entry under the key of the user whose credentials the session holds.
C7_LogoutRemovesEntry ==
    \A t \in Tasks :
        (tasks[t].op = "logout" /\ Done(t) /\ ds._user # null
           /\ \A other \in Tasks : tasks[other].status # "active") =>
            StorageKey(ds.appName, ds._user) \notin DOMAIN store

----------------------------------------------------------------------------
(* C8 *)

\* C8: logout destroys the session's credentials: after it the session holds no
\* Keyring, dsn or vid.
C8_LogoutDestroysCredentials ==
    \A t \in Tasks :
        (tasks[t].op = "logout" /\ Done(t)) =>
            /\ ds._keyring = NoObject
            /\ ds._dsn = null
            /\ ds._vid = null

----------------------------------------------------------------------------
(* C9 *)

CredentialOps == {"getKey", "getDsn", "getClient"}

\* The call has run its first piece of code.
PastStart(T) ==
    \/ T.status = "done"
    \/ T.status = "active" /\ ~(Len(T.stack) = 1 /\ Top(T).pc = "start")

\* C9: when getKey, getDsn or getClient returns successfully the session holds a
\* Keyring, and each calls connect(user, true), once, exactly when no Keyring exists
\* at the time of the call.
C9_KeyringAfterCredential ==
    \A t \in Tasks :
        LET T == tasks[t]
        IN  T.op \in CredentialOps =>
              /\ (Done(t) /\ T.ret.t = "ok") => ds._keyring # NoObject
              /\ PastStart(T) => (Has(T, {"this.connect"}) <=> T.pre._keyring = NoObject)
              /\ Cardinality(Entries(T, {"this.connect"})) <= 1
              /\ \A i \in Entries(T, {"this.connect"}) :
                    T.log[i] = <<"this.connect", T.call.user, TRUE>>

\* A getKey that found no Keyring has connected and returned the key.
C9_Witness ==
    \E t \in Tasks :
        /\ tasks[t].op = "getKey"
        /\ Done(t)
        /\ tasks[t].ret.t = "ok"
        /\ tasks[t].pre._keyring = NoObject

----------------------------------------------------------------------------
(* C10 *)

\* C10: after delete(id) has succeeded on a record the store held, get(id) reports the
\* record missing, and the store holds the document flagged _deleted, as the save
\* path wrote it: signed, modifiedAt set.
C10_SoftDelete ==
    \A t \in Tasks :
        LET T == tasks[t]
            id == T.call.doc
        IN  (T.op = "delete" /\ Done(t) /\ T.call.isId /\ T.ret.t = "ok") =>
              /\ backendGet(docs, id) = Throw(NotFound)
              /\ id \in DOMAIN docs
              /\ docs[id]._deleted
              /\ \E i \in Entries(T, {"_db.put"}) : T.log[i][2] = docs[id]
              /\ ValidSignature(docs[id])

----------------------------------------------------------------------------
(* C11 *)

\* The records the task's save has handed to this._db.put.
PutRequests(T) == {T.log[i][2] : i \in Entries(T, {"_db.put"})}

\* C11: a save of a record without _id assigns an _id never assigned before and leaves
\* insertedAt equal to modifiedAt; a save of a record with _id leaves insertedAt
\* unchanged and sets modifiedAt to a value strictly greater than its previous value.
C11_IdsAndTimestamps ==
    \A t \in Tasks :
        LET T == tasks[t]
        IN  T.op = "save" =>
              \A r \in PutRequests(T) :
                 IF T.call.data._id = 0
                 THEN /\ r._id # 0
                      /\ r._id \notin DOMAIN Init_docs
                      /\ \A u \in Tasks \ {t} : \A q \in PutRequests(tasks[u]) :
                            tasks[u].call.fn = "save" /\ tasks[u].call.data._id = 0
                               => q._id # r._id
                      /\ r.insertedAt = r.modifiedAt
                 ELSE /\ r._id = T.call.data._id
                      /\ r.insertedAt = T.call.data.insertedAt
                      /\ r.modifiedAt > T.call.data.modifiedAt

----------------------------------------------------------------------------
(* C12 *)

\* The fields a sort order names, in order.
RECURSIVE SortedFields(_, _)
SortedFields(sortItems, from) ==
    IF from > Len(sortItems) THEN <<>>
    ELSE (IF sortItems[from].isString THEN <<sortItems[from].text>>
          ELSE sortItems[from].keys)
         \o SortedFields(sortItems, from + 1)

\* C12: with a non-empty sort order naming f1..fn, the selector getMany passes to
\* this._db.find has $and = [F, {f1: {$gt: true}}, ..., {fn: {$gt: true}}]; with no
\* sort the selector holds F and no $and.
C12_SortFix ==
    \A t \in Tasks :
        LET T == tasks[t]
        IN  T.op = "getMany" =>
              \A i \in Entries(T, {"_db.find"}) :
                 LET selector == T.log[i][2].selector
                     F == IF T.call.filter = undefined THEN <<>> ELSE T.call.filter
                     fields == SortedFields(T.call.options.sort, 1)
                 IN  IF Len(T.call.options.sort) # 0
                     THEN /\ "$and" \in DOMAIN selector
                          /\ selector["$and"] =
                                <<F>> \o [k \in 1..Len(fields) |-> GtTrue(fields[k])]
                     ELSE /\ "$and" \notin DOMAIN selector
                          /\ \A k \in DOMAIN F : k \in DOMAIN selector /\ selector[k] = F[k]

----------------------------------------------------------------------------
(* C13 *)

\* C13: when this._db.find fails inside getMany on an initialized Database, getMany
\* does not raise and returns an empty document list; an error of the backend
\* initialization inside getMany is propagated to the caller.
C13_FindFailureIsEmpty ==
    \A t \in Tasks :
        LET T == tasks[t]
        IN  (T.op = "getMany" /\ Done(t)) =>
              /\ Has(T, {"console.log"}) => T.ret = Ok(List(<<>>))
              /\ ~Has(T, {"_db.find"}) => T.ret.t = "throw"

----------------------------------------------------------------------------
(* C14 *)

\* The session that results from restoring S's serialized form into a fresh DataServer.
Restored(S) == unserialize(DataServer, serialize(S), S._user)

\* C14: once a connect has succeeded, restoring serialize() into a fresh session gives
\* a session that holds a Keyring (so getKey and getDsn make no connect and no
\* identity call) and whose getKey and getDsn return what the original's return; the
\* serialized form holds exactly signature, dsn, vid and publicCredentials.
C14_RoundTrip ==
    ds._keyring # NoObject =>
        /\ Restored(ds)._keyring # NoObject
        /\ Restored(ds)._keyring.symKey = ds._keyring.symKey
        /\ Restored(ds)._dsn = ds._dsn
        /\ DOMAIN serialize(ds) = {"signature", "dsn", "vid", "publicCredentials"}
        /\ serialize(Restored(ds)) = serialize(ds)

\* A connect that went to the identity layer has succeeded and the session holds a dsn.
C14_Witness ==
    /\ ds._keyring # NoObject
    /\ ds._dsn # null
    /\ \E t \in Tasks :
         /\ tasks[t].op = "connect"
         /\ Done(t)
         /\ tasks[t].ret = Ok(TRUE)
         /\ Has(tasks[t], {"store.set"})

----------------------------------------------------------------------------
(* C15 *)

\* The inputs are the same once the did is lower-cased.
SameTuple(in, D) ==
    /\ toLowerCase(in.did) = D.did
    /\ in.appName = D.appName
    /\ in.dbName = D.dbName
    /\ in.permissions.read = D.permissions.read
    /\ in.permissions.write = D.permissions.write

\* C15: the identity is "v" followed by the hash of did/appName/dbName/read/write; a
\* Database constructed from the same tuple (did lower-cased) gets the same identity,
\* one constructed from a tuple that differs in a component gets a different one, and
\* every call returns the value the first call computed.
C15_DatabaseIdentity ==
    db._dbHash # null =>
        /\ db._dbHash = "v" \o md5(db.did \o "/" \o db.appName \o "/" \o db.dbName \o "/"
                                    \o db.permissions.read \o "/" \o db.permissions.write)
        /\ \A in \in IdentityInputs :
              getDatabaseHash(DatabaseFor(in))._dbHash = db._dbHash <=> SameTuple(in, db)
        /\ getDatabaseHash(db)._dbHash = db._dbHash
        /\ \A t \in Tasks : \A i \in Entries(tasks[t], {"getDatabaseHash"}) :
              tasks[t].log[i][2] = db._dbHash

----------------------------------------------------------------------------
(* C16 *)

\* C16: under every interleaving of first operations issued before the backend is
\* memoized, exactly one backend is constructed: no two calls in flight have each
\* constructed one.
C16_OneBackend ==
    \A t, u \in Tasks :
        (t # u /\ Has(tasks[t], Constructions)) => ~Has(tasks[u], Constructions)

----------------------------------------------------------------------------
(* C17 *)

Requests == {"dataserver.getKey", "dataserver.getDsn"}

\* The call enters _init().
EntersInit(t) ==
    /\ running = t
    /\ tasks[t].status = "active"
    /\ Top(tasks[t]).fn = "_init"
    /\ Top(tasks[t]).pc = "start"

\* An earlier call has run _init() (the identity is cached) and it has failed.
InitFailedBefore == db._dbHash # null /\ db._db = NoObject

\* C17: with calls made one after the other, once an operation has failed because
\* initialization failed, a later operation fails in _init() without requesting the
\* key or the DSN and without constructing a backend.
C17_InitAttemptedOnce ==
    [][\A t \in Tasks :
         (EntersInit(t) /\ InitFailedBefore) =>
            /\ ~Has(tasks'[t], Requests \cup Constructions)
            /\ tasks'[t].ret.t = "throw"]_vars

----------------------------------------------------------------------------
(* C18 *)

\* C18: with calls made one after the other, once the backend is memoized no step
\* requests the key or the DSN, triggers connect or constructs a backend, and the
\* memoized reference stays what it is.
C18_Memoized ==
    [][db._db # NoObject =>
         /\ db'._db = db._db
         /\ ds' = ds
         /\ \A t \in Tasks :
              Entries(tasks'[t], Requests \cup Constructions)
                 \subseteq Entries(tasks[t], Requests \cup Constructions)]_vars

\* A call made after the backend was memoized has returned from _init().
C18_Witness ==
    \E t \in Tasks :
        /\ db._db # NoObject
        /\ tasks[t].status = "active"
        /\ Top(tasks[t]).pc = "await _init"
        /\ tasks[t].ret = Ok(null)
        /\ ~Has(tasks[t], {"getDatabaseHash"})

----------------------------------------------------------------------------
(* C19 *)

IsEmit(e) == e[1] = "emit"

\* The notifications the call has emitted, in order.
Emitted(T) == SelectSeq(T.log, IsEmit)

\* C19: a successful save emits exactly beforeInsert then afterInsert (record without
\* _id) or beforeUpdate then afterUpdate; the before-notification comes after the
\* signing has completed and before this._db.put, the after-notification after the
\* put; a save whose signing fails emits nothing, one whose put fails emits no
\* after-notification.
C19_Notifications ==
    \A t \in Tasks :
        LET T == tasks[t]
            path == IF T.call.data._id = 0 THEN "Insert" ELSE "Update"
        IN  T.op = "save" =>
              /\ (Done(t) /\ T.ret.t = "ok") =>
                    Emitted(T) = <<<<"emit", "before" \o path>>, <<"emit", "after" \o path>>>>
              /\ \A i \in Entries(T, {"emit"}) :
                    IF T.log[i][2] = "before" \o path
                    THEN /\ \E j \in 1..(i - 1) : T.log[j] = <<"signUser.signData", "signed">>
                         /\ \A k \in Entries(T, {"_db.put"}) : i < k
                    ELSE /\ T.log[i][2] = "after" \o path
                         /\ \E k \in Entries(T, {"_db.put"}) : k < i
                         /\ Done(t) /\ T.ret.t = "ok"
              /\ (Done(t) /\ T.ret = Throw(ErrNoSigner)) => Emitted(T) = <<>>
              /\ (Done(t) /\ T.ret = Throw(PutError)) =>
                    Emitted(T) = <<<<"emit", "before" \o path>>>>

----------------------------------------------------------------------------
(* C20 *)

ReportsInvalidDid(err) == err[1] = "response" /\ err[3] = "Invalid DID specified"
ReportsUnauthorized(err) == err[1] = "response" /\ err[2] = "Unauthorized"

\* client.getUser succeeded: its record is used and createUser is not called.
FetchedRecordUsed(t, T) ==
    \A i \in Entries(T, {"client.getUser returned"}) :
        /\ ~Has(T, {"client.createUser"})
        /\ (Done(t) /\ T.ret.t = "ok") =>
              /\ Has(T, {"store.set"})
              /\ ds._dsn = T.log[i][2].dsn

\* createUser is called once, right after the error, with the password hashed from
\* the signature.
UserCreated(T, i) ==
    /\ Cardinality(Entries(T, {"client.createUser"})) = 1
    /\ i + 1 \in Entries(T, {"client.createUser"})
    /\ T.log[i + 1][3] = _generatePassword(SignatureOf(T.log[i + 1][2]))
    /\ \E j \in Entries(T, {"client.getUser"}) : j < i /\ T.log[j][2] = T.log[i + 1][2]

\* The call fails with the error and createUser is not called.
FailsWith(t, T, err) ==
    /\ ~Has(T, {"client.createUser"})
    /\ Done(t) => T.ret = Throw(err)

\* C20 as stated: getUser success uses the fetched record without createUser; an error
\* reporting "Invalid DID specified" calls createUser once with the hashed password;
\* an error with status Unauthorized fails with UnauthorizedError without createUser;
\* any other error is propagated unchanged.
C20_UserResolutionAsStated ==
    \A t \in Tasks :
        LET T == tasks[t]
        IN  /\ FetchedRecordUsed(t, T)
            /\ \A i \in Entries(T, {"client.getUser threw"}) :
                  LET err == T.log[i][2]
                  IN  /\ ReportsInvalidDid(err) => UserCreated(T, i)
                      /\ ReportsUnauthorized(err) => FailsWith(t, T, ErrUnauthorized)
                      /\ (~ReportsInvalidDid(err) /\ ~ReportsUnauthorized(err))
                            => FailsWith(t, T, err)

\* C20, amended: as stated, but an error that reports "Invalid DID specified" calls
\* createUser also when its status is Unauthorized; UnauthorizedError is for the
\* Unauthorized errors that do not report "Invalid DID specified".
C20_UserResolution ==
    \A t \in Tasks :
        LET T == tasks[t]
        IN  /\ FetchedRecordUsed(t, T)
            /\ \A i \in Entries(T, {"client.getUser threw"}) :
                  LET err == T.log[i][2]
                  IN  /\ ReportsInvalidDid(err) => UserCreated(T, i)
                      /\ (ReportsUnauthorized(err) /\ ~ReportsInvalidDid(err))
                            => FailsWith(t, T, ErrUnauthorized)
                      /\ (~ReportsInvalidDid(err) /\ ~ReportsUnauthorized(err))
                            => FailsWith(t, T, err)

\* A connect whose getUser was answered Unauthorized with "Invalid DID specified" has
\* created the user and returned true.
C20_Witness ==
    \E t \in Tasks :
        /\ tasks[t].op = "connect"
        /\ Done(t)
        /\ tasks[t].ret = Ok(TRUE)
        /\ \E i \in Entries(tasks[t], {"client.getUser threw"}) :
              tasks[t].log[i][2] = ResponseError("Unauthorized", "Invalid DID specified")

----------------------------------------------------------------------------
(* C21 *)

\* The DSNs the identity server gives for a user.
OwnDsns(user) == {UserRecord(user, answer).dsn : answer \in {"user", "user without dsn"}}

\* C21: on one session used with several users, a getKey(u) that returns gives the
\* symmetric key derived from u's own signature, and a getDsn(u) that returns gives
\* u's own DSN, never the key or DSN established for another user.
C21_OwnCredentials ==
    \A t \in Tasks :
        LET T == tasks[t]
        IN  (Done(t) /\ T.ret.t = "ok") =>
              /\ T.op = "getKey" => T.ret.v = Keyring(SignatureOf(T.call.user)).symKey
              /\ T.op = "getDsn" => T.ret.v \in OwnDsns(T.call.user)

====
